---- MODULE Spec2Model ----
(***************************************************************************)
(* Maze generator and solver of static/js/maze.js.                         *)
(*                                                                         *)
(* The state is the set of globals of maze.js together with the two        *)
(* dimension fields of the configuration form.  The contents of the other  *)
(* form controls (the entrance/exit selects, the two wall selects and the  *)
(* cell size field) are read by LoadMaze only and enter as its inputs.     *)
(* The page is single threaded: while LoadMaze runs (pc = "GenerateMaze")  *)
(* no other handler runs.  The recursion of GenerateMaze is kept as an     *)
(* explicit call stack, one frame per active invocation, and every draw    *)
(* of Math.random is an input of the step that makes it.                   *)
(*                                                                         *)
(* The Play! button opens the window that runs static/js/solver.js.  Its   *)
(* globals are the fields of the variable play; its Maze is the very       *)
(* array of the generator page, so what the play window writes into it is  *)
(* written into Maze as well, until the page replaces its arrays.  Of the  *)
(* play window's document the state keeps the checkboxes, the contents of  *)
(* the livestats DIV and the background colour of the cell DIVs; the dot   *)
(* images always sit on Current_Location and Current_Answer_Location and   *)
(* are not kept.  Every call of UpdateAnswer waiting in setTimeout is an    *)
(* entry of play.playback, with the coordinates its playback has shown.    *)
(*                                                                         *)
(* GetNeighborAccess, GetNeighbors and ShuffleNeighbors are also run on    *)
(* their own, as the first statements of a Solver or GenerateMaze          *)
(* invocation on every cell of every small grid (SpecAccess,               *)
(* SpecNeighbors).                                                         *)
(***************************************************************************)
EXTENDS Integers, Sequences, FiniteSets, TLC

\* ---------------------------------------------------------------- bounds
MaxWidth == 2
MaxHeight == 2
MaxCells == 4
MaxSolveRuns == 2
MaxMoves == 3
MaxJumps == 1
MaxPlaybacks == 1
MaxReplays == 2     \* playbacks started while another one is in progress, plus 1
MaxGrid == 3        \* side of the largest grid a single function is run on

\* ------------------------------------------------------ program constants
DEFAULT_WIDTH == 40
DEFAULT_HEIGHT == 40
DEFAULT_CELL_SIZE == 20
BORDER_WIDTH == 1
MIN_CELL_SIZE == 4

VARIABLES
    WIDTH, HEIGHT,            \* globals of maze.js
    STARTING_X, STARTING_Y,   \* exit cell (where carving starts)
    ENTRANCE_X, ENTRANCE_Y,   \* entrance cell
    CELL_SIZE,
    ENTER, EXIT,              \* values of the wall selects (strings)
    Maze,                     \* created cells: <<x,y>> -> [wall, visited]
    Maze_HTML,                \* drawn cells: <<x,y>> -> wall flags ('' is empty)
    Solution_List,
    Steps_to_Solve,
    links,                    \* the Play!/View buttons are shown
    dim_width, dim_height,    \* the two dimension text fields
    pc,                       \* "idle" or "GenerateMaze" (inside LoadMaze)
    stack,                    \* active GenerateMaze invocations
    outcome,                  \* how the most recent handler of the page ended
    Solver_ret,               \* value returned by the Solver call of SolveMaze
    solveRuns,                \* SolveMaze runs since the last ResetValues
    play,                     \* the play window: globals of solver.js
    trial,                    \* census of ShuffleNeighbors over the random draws
    access                    \* a Solver invocation up to its GetNeighborAccess call

vars == <<WIDTH, HEIGHT, STARTING_X, STARTING_Y, ENTRANCE_X, ENTRANCE_Y,
          CELL_SIZE, ENTER, EXIT, Maze, Maze_HTML, Solution_List,
          Steps_to_Solve, links, dim_width, dim_height, pc, stack, outcome,
          Solver_ret, solveRuns, play, trial, access>>

\* ------------------------------------------------------------- data model
Sides == 0..3          \* 0 top, 1 right, 2 bottom, 3 left

NewCell == [wall |-> [s \in Sides |-> 1], visited |-> FALSE]

EmptyMaze == [c \in {} |-> NewCell]

\* value of a select compared with == against a number: "" converts to 0
ToNumber(v) ==
    CASE v = "0" -> 0
      [] v = "1" -> 1
      [] v = "2" -> 2
      [] v = "3" -> 3
      [] v = ""  -> 0

LooseEq(v, n) == ToNumber(v) = n

\* ------------------------------------------------------ configuration form
EntranceLocations == {"tl", "tr", "br", "bl"}

ExitLocations == {"br", "bl", "tr", "Tl"}

EntranceWallOptions(location) ==
    CASE location = "tl" -> {"3", "0"}
      [] location = "tr" -> {"1", "0"}
      [] location = "br" -> {"1", "2"}
      [] location = "bl" -> {"3", "2"}

\* the page starts with the options "1" and "3" for the exit "br"; UpdateExit
\* replaces them, and leaves the select without options for "Tl"
ExitWallOptions(location) ==
    CASE location = "br" -> {"1", "3", "2"}
      [] location = "bl" -> {"3", "2"}
      [] location = "tr" -> {"1", "0"}
      [] location = "Tl" -> {""}

CellSizeInputs == {1, 3, 10}

FormInputs ==
    { f \in [entrance : EntranceLocations, wall_entrance : {"0", "1", "2", "3"},
             exit : ExitLocations, wall_exit : {"", "0", "1", "2", "3"},
             cell_size : CellSizeInputs] :
        /\ f.wall_entrance \in EntranceWallOptions(f.entrance)
        /\ f.wall_exit \in ExitWallOptions(f.exit) }

\* corner chosen by GetEntrance; old is kept when no branch matches
GetEntrance(location, old) ==
    CASE location = "tl" -> <<0, 0>>
      [] location = "tr" -> <<WIDTH - 1, 0>>
      [] location = "br" -> <<WIDTH - 1, HEIGHT - 1>>
      [] location = "bl" -> <<0, HEIGHT - 1>>
      [] OTHER -> old

GetExit(location, old) ==
    CASE location = "tl" -> <<0, 0>>
      [] location = "tr" -> <<WIDTH - 1, 0>>
      [] location = "br" -> <<WIDTH - 1, HEIGHT - 1>>
      [] location = "bl" -> <<0, HEIGHT - 1>>
      [] OTHER -> old

ICanHazErrors_NoSameCell(sx, sy, ex, ey, h, w, cs) ==
    \/ (h <= 0 \/ w <= 0)
    \/ BORDER_WIDTH <= 0
    \/ BORDER_WIDTH >= cs
    \/ cs < MIN_CELL_SIZE

ICanHazErrors(sx, sy, ex, ey, h, w, cs) ==
    \/ (sx = ex /\ sy = ey)
    \/ (h <= 0 \/ w <= 0)
    \/ BORDER_WIDTH <= 0
    \/ BORDER_WIDTH >= cs
    \/ cs < MIN_CELL_SIZE

\* ------------------------------------------------------------- generation
ResetValues ==
    [Maze_HTML |-> << >>, Maze |-> EmptyMaze,
     Solution_List |-> << >>, Steps_to_Solve |-> 0]

\* variant: the neighbor on the left is never offered
GetNeighbors_NoLeft(w, h) ==
    (IF h # 0 THEN << <<w, h - 1>> >> ELSE << >>) \o
    (IF w < WIDTH - 1 THEN << <<w + 1, h>> >> ELSE << >>) \o
    (IF h < HEIGHT - 1 THEN << <<w, h + 1>> >> ELSE << >>)

GetNeighbors(w, h) ==
    (IF h # 0 THEN << <<w, h - 1>> >> ELSE << >>) \o
    (IF w < WIDTH - 1 THEN << <<w + 1, h>> >> ELSE << >>) \o
    (IF h < HEIGHT - 1 THEN << <<w, h + 1>> >> ELSE << >>) \o
    (IF w # 0 THEN << <<w - 1, h>> >> ELSE << >>)

\* the draws of Math.floor(Math.random()*n), one per loop iteration
RandomIndices(n) == [1..n -> 0..(n - 1)]

\* variant: position i is overwritten before it has been saved
Swap_Overwrite(list, i, j) == [list EXCEPT ![i] = list[j]]

Swap(list, i, j) == [list EXCEPT ![i] = list[j], ![j] = list[i]]

RECURSIVE ShuffleFrom(_, _, _)
ShuffleFrom(neighbors, random, i) ==
    IF i > Len(neighbors) THEN neighbors
    ELSE ShuffleFrom(Swap(neighbors, i, random[i] + 1), random, i + 1)

ShuffleNeighbors(neighbors, random) == ShuffleFrom(neighbors, random, 1)

RemoveWall_OneSide(maze, w, h, neighbor) ==
    IF neighbor[2] < h THEN [maze EXCEPT ![<<w, h>>].wall[0] = 0]
    ELSE IF neighbor[2] > h THEN [maze EXCEPT ![<<w, h>>].wall[2] = 0]
    ELSE IF neighbor[1] > w THEN [maze EXCEPT ![<<w, h>>].wall[1] = 0]
    ELSE IF neighbor[1] < w THEN [maze EXCEPT ![<<w, h>>].wall[3] = 0]
    ELSE maze

RemoveWall(maze, w, h, neighbor) ==
    IF neighbor[2] < h THEN
        [maze EXCEPT ![<<w, h>>].wall[0] = 0, ![neighbor].wall[2] = 0]
    ELSE IF neighbor[2] > h THEN
        [maze EXCEPT ![<<w, h>>].wall[2] = 0, ![neighbor].wall[0] = 0]
    ELSE IF neighbor[1] > w THEN
        [maze EXCEPT ![<<w, h>>].wall[1] = 0, ![neighbor].wall[3] = 0]
    ELSE IF neighbor[1] < w THEN
        [maze EXCEPT ![<<w, h>>].wall[3] = 0, ![neighbor].wall[1] = 0]
    ELSE maze

\* entry of GenerateMaze(w, h): mark, collect and shuffle the neighbors
GenerateMazeEnter(maze, stk, w, h, random) ==
    [Maze  |-> [maze EXCEPT ![<<w, h>>].visited = TRUE],
     stack |-> Append(stk, [w |-> w, h |-> h, i |-> 0,
                            neighbors |-> ShuffleNeighbors(GetNeighbors(w, h), random)])]

InstallDoors(maze) ==
    LET e == <<ENTRANCE_X, ENTRANCE_Y>>
        s == <<STARTING_X, STARTING_Y>>
        m0 == IF LooseEq(ENTER, 0) THEN [maze EXCEPT ![e].wall[0] = 0] ELSE maze
        m1 == IF LooseEq(ENTER, 1) THEN [m0 EXCEPT ![e].wall[1] = 0] ELSE m0
        m2 == IF LooseEq(ENTER, 2) THEN [m1 EXCEPT ![e].wall[2] = 0] ELSE m1
        m3 == IF LooseEq(ENTER, 3) THEN [m2 EXCEPT ![e].wall[3] = 0] ELSE m2
        m4 == IF LooseEq(EXIT, 0) THEN [m3 EXCEPT ![s].wall[0] = 0] ELSE m3
        m5 == IF LooseEq(EXIT, 1) THEN [m4 EXCEPT ![s].wall[1] = 0] ELSE m4
        m6 == IF LooseEq(EXIT, 2) THEN [m5 EXCEPT ![s].wall[2] = 0] ELSE m5
        m7 == IF LooseEq(EXIT, 3) THEN [m6 EXCEPT ![s].wall[3] = 0] ELSE m6
    IN m7

\* one DIV per cell, its borders drawn from the cell's wall flags
DrawMaze(maze) == [c \in DOMAIN maze |-> maze[c].wall]

\* ----------------------------------------------------------------- solver
GetNeighborAccess_NoLeft(maze, x, y) ==
    (IF maze[<<x, y>>].wall[0] = 0 /\ y # 0 /\ maze[<<x, y - 1>>].visited = FALSE
        THEN << <<x, y - 1>> >> ELSE << >>) \o
    (IF maze[<<x, y>>].wall[1] = 0 /\ x # (WIDTH - 1) /\ maze[<<x + 1, y>>].visited = FALSE
        THEN << <<x + 1, y>> >> ELSE << >>) \o
    (IF maze[<<x, y>>].wall[2] = 0 /\ y # (HEIGHT - 1) /\ maze[<<x, y + 1>>].visited = FALSE
        THEN << <<x, y + 1>> >> ELSE << >>)

\* variant: the left neighbor is looked at first
GetNeighborAccess_LeftFirst(maze, x, y) ==
    (IF maze[<<x, y>>].wall[3] = 0 /\ x # 0 /\ maze[<<x - 1, y>>].visited = FALSE
        THEN << <<x - 1, y>> >> ELSE << >>) \o
    (IF maze[<<x, y>>].wall[0] = 0 /\ y # 0 /\ maze[<<x, y - 1>>].visited = FALSE
        THEN << <<x, y - 1>> >> ELSE << >>) \o
    (IF maze[<<x, y>>].wall[1] = 0 /\ x # (WIDTH - 1) /\ maze[<<x + 1, y>>].visited = FALSE
        THEN << <<x + 1, y>> >> ELSE << >>) \o
    (IF maze[<<x, y>>].wall[2] = 0 /\ y # (HEIGHT - 1) /\ maze[<<x, y + 1>>].visited = FALSE
        THEN << <<x, y + 1>> >> ELSE << >>)

\* the cells whose visited flag GetNeighborAccess(x, y) evaluates: the third
\* operand of each && chain is reached only when the first two are true
GetNeighborAccessReads(maze, x, y) ==
    (IF maze[<<x, y>>].wall[0] = 0 /\ y # 0 THEN {<<x, y - 1>>} ELSE {}) \cup
    (IF maze[<<x, y>>].wall[1] = 0 /\ x # (WIDTH - 1) THEN {<<x + 1, y>>} ELSE {}) \cup
    (IF maze[<<x, y>>].wall[2] = 0 /\ y # (HEIGHT - 1) THEN {<<x, y + 1>>} ELSE {}) \cup
    (IF maze[<<x, y>>].wall[3] = 0 /\ x # 0 THEN {<<x - 1, y>>} ELSE {})

GetNeighborAccess(maze, x, y) ==
    (IF maze[<<x, y>>].wall[0] = 0 /\ y # 0 /\ maze[<<x, y - 1>>].visited = FALSE
        THEN << <<x, y - 1>> >> ELSE << >>) \o
    (IF maze[<<x, y>>].wall[1] = 0 /\ x # (WIDTH - 1) /\ maze[<<x + 1, y>>].visited = FALSE
        THEN << <<x + 1, y>> >> ELSE << >>) \o
    (IF maze[<<x, y>>].wall[2] = 0 /\ y # (HEIGHT - 1) /\ maze[<<x, y + 1>>].visited = FALSE
        THEN << <<x, y + 1>> >> ELSE << >>) \o
    (IF maze[<<x, y>>].wall[3] = 0 /\ x # 0 /\ maze[<<x - 1, y>>].visited = FALSE
        THEN << <<x - 1, y>> >> ELSE << >>)

\* st = [Maze, Solution_List, Steps_to_Solve]; the result adds ret
RECURSIVE Solver(_, _, _)
RECURSIVE SolverLoop(_, _, _, _, _)

\* variant: the loop adds the current cell in front of the list
SolverLoop_Prepend(x, y, neighbors, i, st) ==
    IF i > Len(neighbors) THEN
        [ret |-> FALSE, Maze |-> st.Maze, Solution_List |-> st.Solution_List,
         Steps_to_Solve |-> st.Steps_to_Solve]
    ELSE
        LET r == Solver(neighbors[i][1], neighbors[i][2], st)
        IN IF r.ret = TRUE THEN
               [ret |-> TRUE, Maze |-> r.Maze,
                Solution_List |-> << <<x, y>> >> \o r.Solution_List,
                Steps_to_Solve |-> r.Steps_to_Solve + 1]
           ELSE
               SolverLoop(x, y, neighbors, i + 1,
                          [Maze |-> r.Maze, Solution_List |-> r.Solution_List,
                           Steps_to_Solve |-> r.Steps_to_Solve])

\* variant: the exit cell counts as a step too
Solver_CountExit(x, y, st) ==
    IF x = STARTING_X /\ y = STARTING_Y THEN
        [ret |-> TRUE, Maze |-> st.Maze,
         Solution_List |-> Append(st.Solution_List, <<x, y>>),
         Steps_to_Solve |-> st.Steps_to_Solve + 1]
    ELSE
        LET marked == [st EXCEPT !.Maze[<<x, y>>].visited = TRUE]
        IN SolverLoop(x, y, GetNeighborAccess(marked.Maze, x, y), 1, marked)

Solver(x, y, st) ==
    IF x = STARTING_X /\ y = STARTING_Y THEN
        [ret |-> TRUE, Maze |-> st.Maze,
         Solution_List |-> Append(st.Solution_List, <<x, y>>),
         Steps_to_Solve |-> st.Steps_to_Solve]
    ELSE
        LET marked == [st EXCEPT !.Maze[<<x, y>>].visited = TRUE]
        IN SolverLoop(x, y, GetNeighborAccess(marked.Maze, x, y), 1, marked)

SolverLoop(x, y, neighbors, i, st) ==
    IF i > Len(neighbors) THEN
        [ret |-> FALSE, Maze |-> st.Maze, Solution_List |-> st.Solution_List,
         Steps_to_Solve |-> st.Steps_to_Solve]
    ELSE
        LET r == Solver(neighbors[i][1], neighbors[i][2], st)
        IN IF r.ret = TRUE THEN
               [ret |-> TRUE, Maze |-> r.Maze,
                Solution_List |-> Append(r.Solution_List, <<x, y>>),
                Steps_to_Solve |-> r.Steps_to_Solve + 1]
           ELSE
               SolverLoop(x, y, neighbors, i + 1,
                          [Maze |-> r.Maze, Solution_List |-> r.Solution_List,
                           Steps_to_Solve |-> r.Steps_to_Solve])

SolveMaze(maze, list, steps) ==
    Solver(ENTRANCE_X, ENTRANCE_Y,
           [Maze |-> [c \in DOMAIN maze |-> [maze[c] EXCEPT !.visited = FALSE]],
            Solution_List |-> list, Steps_to_Solve |-> steps])

\* no Solver invocation is under observation
NoAccess == [x |-> 0, y |-> 0, called |-> FALSE, neighbors |-> << >>, reads |-> {}]

\* ---------------------------------------------------------- shuffle census
\* the longest list GetNeighbors returns
MaxNeighbors == 4

\* the neighbors of an inner cell (1,1), as GetNeighbors lists them
InnerNeighbors == << <<1, 0>>, <<2, 1>>, <<1, 2>>, <<0, 1>> >>

\* the orders a list can be put in
Orders(list) ==
    { q \in [1..Len(list) -> {list[i] : i \in 1..Len(list)}] :
        \A i, j \in 1..Len(list) : i # j => q[i] # q[j] }

\* the k-th of the n^n equally likely sequences of n draws of
\* Math.floor(Math.random()*n)
RandomSequence(n, k) == [i \in 1..n |-> (k \div (n ^ (i - 1))) % n]

NoTrial == [neighbors |-> << >>, next |-> 0, count |-> << >>]

\* a census about to start on a list of n neighbors
NewTrial(n) ==
    [neighbors |-> SubSeq(InnerNeighbors, 1, n), next |-> 0,
     count |-> [q \in Orders(SubSeq(InnerNeighbors, 1, n)) |-> 0]]

\* ------------------------------------------------------------ play window
\* where CheckFinish leaves the player once the maze is solved
Sentinel == <<-1, -1>>

\* background colours of the cell DIVs, as they show: a DIV DrawMaze wrote has
\* no background of its own and shows the white of the page
White == "#FFFFFF"

VistedBGColor == "#C9D4E8"

SplitOffsColor == "#759DE8"

ANS_BG_COLOR == "#00FF00"

\* no play window has been opened yet.  The fields after error are: shared,
\* the window's Maze is still the array the generator page holds; the three
\* checkboxes; what the livestats DIV holds ("", "live" or "final") and the
\* Show Answer checkbox inside it; the background colour of every cell DIV;
\* and one entry per playback started by Play Answer
NoWindow ==
    [open |-> FALSE, loaded |-> FALSE, divs |-> {}, Maze |-> EmptyMaze,
     Start_X |-> 0, Start_Y |-> 0, End_X |-> 0, End_Y |-> 0,
     WIDTH |-> 0, HEIGHT |-> 0, Exit |-> "", Enter |-> "",
     Current_Location |-> <<0, 0>>, Current_Answer_Location |-> <<0, 0>>,
     User_Moves |-> 0, User_Jumps |-> 0,
     Steps_to_Solve |-> 0, Solution_List |-> << >>, stats |-> 0, error |-> "",
     shared |-> FALSE, showpath |-> FALSE, showsplits |-> FALSE,
     showstats |-> FALSE, livestats |-> "", showanswer |-> FALSE,
     color |-> << >>, playback |-> << >>]

\* the cleanup loops reset Maze[i][j][4] for i < WIDTH (outer), j < HEIGHT
\* (inner) and stop with a TypeError at the first cell the array lacks
MazeCleanup(maze, w, h) ==
    LET range == (0..(w - 1)) \X (0..(h - 1))
        at(c) == c[1] * h + c[2]
        missing == {c \in range : c \notin DOMAIN maze}
        done == {c \in range : \A m \in missing : at(c) < at(m)}
    IN [Maze |-> [c \in DOMAIN maze |->
                    IF c \in done THEN [maze[c] EXCEPT !.visited = FALSE]
                    ELSE maze[c]],
        threw |-> missing # {}]

\* variant: the dot is drawn but the cell is not marked
UpdatePosition_NoMark(p) ==
    IF p.Current_Location \notin DOMAIN p.Maze THEN [play |-> p, threw |-> TRUE]
    ELSE [play |-> p, threw |-> p.Current_Location \notin p.divs]

\* variant: the mark is written to element 0 of the cell, its top wall flag
UpdatePosition_WrongElement(p) ==
    IF p.Current_Location \notin DOMAIN p.Maze THEN [play |-> p, threw |-> TRUE]
    ELSE [play |-> [p EXCEPT !.Maze[p.Current_Location].wall[0] = 1],
          threw |-> p.Current_Location \notin p.divs]

\* marks the current cell and draws the dot in its DIV
UpdatePosition(p) ==
    IF p.Current_Location \notin DOMAIN p.Maze THEN [play |-> p, threw |-> TRUE]
    ELSE [play |-> [p EXCEPT !.Maze[p.Current_Location].visited = TRUE],
          threw |-> p.Current_Location \notin p.divs]

\* variant: the player is put on the cell the carving started from
LoadSolver_StartsAtExit ==
    LET cleaned == MazeCleanup(Maze, WIDTH, HEIGHT)
        globals == [open |-> TRUE, loaded |-> FALSE,
                    divs |-> DOMAIN Maze_HTML, Maze |-> cleaned.Maze,
                    Start_X |-> ENTRANCE_X, Start_Y |-> ENTRANCE_Y,
                    End_X |-> STARTING_X, End_Y |-> STARTING_Y,
                    WIDTH |-> WIDTH, HEIGHT |-> HEIGHT,
                    Exit |-> EXIT, Enter |-> ENTER,
                    Current_Location |-> <<STARTING_X, STARTING_Y>>,
                    Current_Answer_Location |-> <<ENTRANCE_X, ENTRANCE_Y>>,
                    User_Moves |-> 0, User_Jumps |-> 0,
                    Steps_to_Solve |-> Steps_to_Solve,
                    Solution_List |-> Solution_List, stats |-> 0, error |-> "",
                    shared |-> TRUE, showpath |-> FALSE, showsplits |-> FALSE,
                    showstats |-> FALSE, livestats |-> "", showanswer |-> FALSE,
                    color |-> [c \in DOMAIN Maze_HTML |-> White],
                    playback |-> << >>]
        started == UpdatePosition(globals)
    IN IF cleaned.threw THEN globals
       ELSE [started.play EXCEPT !.loaded = ~started.threw]

\* the script of the play window: the globals, the cleanup, Start()
LoadSolver ==
    LET cleaned == MazeCleanup(Maze, WIDTH, HEIGHT)
        globals == [open |-> TRUE, loaded |-> FALSE,
                    divs |-> DOMAIN Maze_HTML, Maze |-> cleaned.Maze,
                    Start_X |-> ENTRANCE_X, Start_Y |-> ENTRANCE_Y,
                    End_X |-> STARTING_X, End_Y |-> STARTING_Y,
                    WIDTH |-> WIDTH, HEIGHT |-> HEIGHT,
                    Exit |-> EXIT, Enter |-> ENTER,
                    Current_Location |-> <<ENTRANCE_X, ENTRANCE_Y>>,
                    Current_Answer_Location |-> <<ENTRANCE_X, ENTRANCE_Y>>,
                    User_Moves |-> 0, User_Jumps |-> 0,
                    Steps_to_Solve |-> Steps_to_Solve,
                    Solution_List |-> Solution_List, stats |-> 0, error |-> "",
                    shared |-> TRUE, showpath |-> FALSE, showsplits |-> FALSE,
                    showstats |-> FALSE, livestats |-> "", showanswer |-> FALSE,
                    color |-> [c \in DOMAIN Maze_HTML |-> White],
                    playback |-> << >>]
        started == UpdatePosition(globals)
    IN IF cleaned.threw THEN globals
       ELSE [started.play EXCEPT !.loaded = ~started.threw]

\* variant: the test is made against the exit wall
CheckStart_UsesExit(p, direction) ==
    /\ p.Current_Location = <<p.Start_X, p.Start_Y>>
    /\ LooseEq(p.Exit, direction)

CheckStart(p, direction) ==
    /\ p.Current_Location = <<p.Start_X, p.Start_Y>>
    /\ LooseEq(p.Enter, direction)

\* variant: the test is made against the entrance wall
CheckFinish_UsesEnter(p, direction) ==
    /\ p.Current_Location = <<p.End_X, p.End_Y>>
    /\ LooseEq(p.Enter, direction)

\* the test of CheckFinish; its effect is part of Move
CheckFinish(p, direction) ==
    /\ p.Current_Location = <<p.End_X, p.End_Y>>
    /\ LooseEq(p.Exit, direction)

\* variant: the walls that stand are counted
CountOpenings_Standing(maze, w, h) ==
    LET standing(i) == IF maze[<<w, h>>].wall[i] = 1 THEN 1 ELSE 0
    IN standing(0) + standing(1) + standing(2) + standing(3)

\* the loop over the four wall flags of cell (w, h)
CountOpenings(maze, w, h) ==
    LET open(i) == IF maze[<<w, h>>].wall[i] = 0 THEN 1 ELSE 0
    IN open(0) + open(1) + open(2) + open(3)

\* the test the handlers make before they colour a cell as a split
IsSplit(p, c) == CountOpenings(p.Maze, c[1], c[2]) >= 3

\* variant: a missing DIV is skipped instead of dereferenced
ClearCurrentCell_NoLookup(p) == [play |-> p, threw |-> FALSE]

\* the DIV of the current cell is looked up first; then its dot is removed
\* and its background colour set from the two checkboxes
ClearCurrentCell(p) ==
    LET c == p.Current_Location
        c1 == IF p.showpath THEN VistedBGColor ELSE p.color[c]
        c2 == IF p.showsplits /\ IsSplit(p, c) THEN SplitOffsColor ELSE c1
        c3 == IF p.showpath = FALSE /\ p.showsplits = FALSE THEN White ELSE c2
    IN IF c \notin p.divs THEN [play |-> p, threw |-> TRUE]
       ELSE [play |-> [p EXCEPT !.color[c] = c3], threw |-> FALSE]

\* ShowStats: the final statistics, with the Show Answer checkbox and the
\* Play Answer button, replace what the livestats DIV held
ShowStats(p) ==
    [p EXCEPT !.stats = @ + 1, !.livestats = "final", !.showanswer = FALSE]

\* the counter shown in the livestats DIV is rewritten when Show Current
\* Stats is checked; its element exists unless the DIV is empty
DisplayMissing(p) == p.showstats /\ p.livestats = ""

\* the coordinate assignment of MoveUp (0), MoveRight (1), MoveDown (2),
\* MoveLeft (3)
Moved(c, d) ==
    CASE d = 0 -> <<c[1], c[2] - 1>>
      [] d = 1 -> <<c[1] + 1, c[2]>>
      [] d = 2 -> <<c[1], c[2] + 1>>
      [] d = 3 -> <<c[1] - 1, c[2]>>

\* variant: the wall flag is not looked at
Move_ThroughWalls(p, d) ==
    LET loc == p.Current_Location
    IN IF CheckStart(p, d) THEN [play |-> p, outcome |-> "CheckStart"]
       ELSE IF loc \notin DOMAIN p.Maze THEN [play |-> p, outcome |-> "Move TypeError"]
       ELSE IF ClearCurrentCell(p).threw THEN [play |-> p, outcome |-> "Move TypeError"]
       ELSE IF CheckFinish(p, d) THEN
           [play |-> ShowStats([ClearCurrentCell(p).play EXCEPT
                                   !.Current_Location = Sentinel]),
            outcome |-> "finished"]
       ELSE
           LET up == UpdatePosition([ClearCurrentCell(p).play EXCEPT
                                        !.Current_Location = Moved(loc, d)])
               counted == [up.play EXCEPT !.User_Moves = @ + 1]
           IN IF up.threw THEN [play |-> up.play, outcome |-> "Move TypeError"]
              ELSE IF DisplayMissing(counted)
                   THEN [play |-> counted, outcome |-> "Move TypeError"]
              ELSE [play |-> [up.play EXCEPT !.User_Moves = @ + 1],
                    outcome |-> "moved"]

\* variant: a move is counted only when it enters a cell for the first time
Move_CountNewCells(p, d) ==
    LET loc == p.Current_Location
    IN IF CheckStart(p, d) THEN [play |-> p, outcome |-> "CheckStart"]
       ELSE IF loc \notin DOMAIN p.Maze THEN [play |-> p, outcome |-> "Move TypeError"]
       ELSE IF p.Maze[loc].wall[d] # 0 THEN [play |-> p, outcome |-> "wall"]
       ELSE IF ClearCurrentCell(p).threw THEN [play |-> p, outcome |-> "Move TypeError"]
       ELSE IF CheckFinish(p, d) THEN
           [play |-> ShowStats([ClearCurrentCell(p).play EXCEPT
                                   !.Current_Location = Sentinel]),
            outcome |-> "finished"]
       ELSE
           LET up == UpdatePosition([ClearCurrentCell(p).play EXCEPT
                                        !.Current_Location = Moved(loc, d)])
               counted == [up.play EXCEPT !.User_Moves = @ + 1]
           IN IF up.threw THEN [play |-> up.play, outcome |-> "Move TypeError"]
              ELSE IF DisplayMissing(counted)
                   THEN [play |-> counted, outcome |-> "Move TypeError"]
              ELSE [play |-> [up.play EXCEPT !.User_Moves =
                                IF p.Maze[Moved(loc, d)].visited THEN @ ELSE @ + 1],
                    outcome |-> "moved"]

\* variant: the move through the exit door is counted like any other
Move_CountFinish(p, d) ==
    LET loc == p.Current_Location
    IN IF CheckStart(p, d) THEN [play |-> p, outcome |-> "CheckStart"]
       ELSE IF loc \notin DOMAIN p.Maze THEN [play |-> p, outcome |-> "Move TypeError"]
       ELSE IF p.Maze[loc].wall[d] # 0 THEN [play |-> p, outcome |-> "wall"]
       ELSE IF ClearCurrentCell(p).threw THEN [play |-> p, outcome |-> "Move TypeError"]
       ELSE IF CheckFinish(p, d) THEN
           [play |-> ShowStats([ClearCurrentCell(p).play EXCEPT
                                   !.Current_Location = Sentinel,
                                   !.User_Moves = @ + 1]),
            outcome |-> "finished"]
       ELSE
           LET up == UpdatePosition([ClearCurrentCell(p).play EXCEPT
                                        !.Current_Location = Moved(loc, d)])
               counted == [up.play EXCEPT !.User_Moves = @ + 1]
           IN IF up.threw THEN [play |-> up.play, outcome |-> "Move TypeError"]
              ELSE IF DisplayMissing(counted)
                   THEN [play |-> counted, outcome |-> "Move TypeError"]
              ELSE [play |-> [up.play EXCEPT !.User_Moves = @ + 1],
                    outcome |-> "moved"]

\* the common body of MoveUp, MoveRight, MoveDown and MoveLeft
Move(p, d) ==
    LET loc == p.Current_Location
    IN IF CheckStart(p, d) THEN [play |-> p, outcome |-> "CheckStart"]
       ELSE IF loc \notin DOMAIN p.Maze THEN [play |-> p, outcome |-> "Move TypeError"]
       ELSE IF p.Maze[loc].wall[d] # 0 THEN [play |-> p, outcome |-> "wall"]
       ELSE IF ClearCurrentCell(p).threw THEN [play |-> p, outcome |-> "Move TypeError"]
       ELSE IF CheckFinish(p, d) THEN
           [play |-> ShowStats([ClearCurrentCell(p).play EXCEPT
                                   !.Current_Location = Sentinel]),
            outcome |-> "finished"]
       ELSE
           LET up == UpdatePosition([ClearCurrentCell(p).play EXCEPT
                                        !.Current_Location = Moved(loc, d)])
               counted == [up.play EXCEPT !.User_Moves = @ + 1]
           IN IF up.threw THEN [play |-> up.play, outcome |-> "Move TypeError"]
              ELSE IF DisplayMissing(counted)
                   THEN [play |-> counted, outcome |-> "Move TypeError"]
              ELSE [play |-> [up.play EXCEPT !.User_Moves = @ + 1],
                    outcome |-> "moved"]

\* variant: the visited flag of the target is not looked at
JumpHere_NoVisitedCheck(p, c) ==
    IF c \notin DOMAIN p.Maze THEN [play |-> p, outcome |-> "JumpHere TypeError"]
    ELSE IF ClearCurrentCell(p).threw THEN [play |-> p, outcome |-> "JumpHere TypeError"]
    ELSE
        LET up == UpdatePosition([ClearCurrentCell(p).play EXCEPT
                                     !.Current_Location = c])
        IN IF up.threw THEN [play |-> up.play, outcome |-> "JumpHere TypeError"]
           ELSE IF DisplayMissing(up.play)
                THEN [play |-> [up.play EXCEPT !.User_Jumps = @ + 1],
                      outcome |-> "JumpHere TypeError"]
           ELSE [play |-> [up.play EXCEPT !.User_Jumps = @ + 1],
                 outcome |-> "jumped"]

\* variant: the jump is added to the move counter
JumpHere_CountsMove(p, c) ==
    IF c \notin DOMAIN p.Maze THEN [play |-> p, outcome |-> "JumpHere TypeError"]
    ELSE IF p.Maze[c].visited # TRUE THEN [play |-> p, outcome |-> "unvisited"]
    ELSE IF ClearCurrentCell(p).threw THEN [play |-> p, outcome |-> "JumpHere TypeError"]
    ELSE
        LET up == UpdatePosition([ClearCurrentCell(p).play EXCEPT
                                     !.Current_Location = c])
        IN IF up.threw THEN [play |-> up.play, outcome |-> "JumpHere TypeError"]
           ELSE IF DisplayMissing(up.play)
                THEN [play |-> [up.play EXCEPT !.User_Jumps = @ + 1],
                      outcome |-> "JumpHere TypeError"]
           ELSE [play |-> [up.play EXCEPT !.User_Moves = @ + 1],
                 outcome |-> "jumped"]

\* a click on the DIV of cell c
JumpHere(p, c) ==
    IF c \notin DOMAIN p.Maze THEN [play |-> p, outcome |-> "JumpHere TypeError"]
    ELSE IF p.Maze[c].visited # TRUE THEN [play |-> p, outcome |-> "unvisited"]
    ELSE IF ClearCurrentCell(p).threw THEN [play |-> p, outcome |-> "JumpHere TypeError"]
    ELSE
        LET up == UpdatePosition([ClearCurrentCell(p).play EXCEPT
                                     !.Current_Location = c])
        IN IF up.threw THEN [play |-> up.play, outcome |-> "JumpHere TypeError"]
           ELSE IF DisplayMissing(up.play)
                THEN [play |-> [up.play EXCEPT !.User_Jumps = @ + 1],
                      outcome |-> "JumpHere TypeError"]
           ELSE [play |-> [up.play EXCEPT !.User_Jumps = @ + 1],
                 outcome |-> "jumped"]

\* ------------------------------------------------- checkboxes and answer
\* position of cell c in a loop over i < WIDTH (outer) and j < h (inner)
LoopOrder(c, h) == c[1] * h + c[2]

\* the cells such a loop runs over
LoopRange(p) == (0..(p.WIDTH - 1)) \X (0..(p.HEIGHT - 1))

\* the cells it has dealt with when it stops with a TypeError at the first
\* of the cells in bad (all of them when bad is empty)
LoopDone(p, bad) ==
    {c \in LoopRange(p) :
        \A b \in bad : LoopOrder(c, p.HEIGHT) < LoopOrder(b, p.HEIGHT)}

IsAnswer(p, x, y) ==
    \E i \in 1..Len(p.Solution_List) : p.Solution_List[i] = <<x, y>>

\* variant: the visited flags are made to follow the checkbox
TogglePath_SetsVisited(p, showPath) ==
    [play |-> [p EXCEPT !.showpath = showPath,
                        !.Maze = [c \in DOMAIN p.Maze |->
                                    [p.Maze[c] EXCEPT !.visited = showPath]]],
     threw |-> FALSE]

\* onchange of Show Visited Path, the box now showing showPath
TogglePath(p, showPath) ==
    LET q == [p EXCEPT !.showpath = showPath]
        color == IF showPath THEN VistedBGColor ELSE White
        Throws(c) ==
            \/ c \notin DOMAIN q.Maze
            \/ (q.Maze[c].visited = TRUE /\ c \notin q.divs)
        Paint(c) ==
            IF q.Maze[c].visited = TRUE
            THEN IF q.showsplits = TRUE /\ IsSplit(q, c) THEN SplitOffsColor ELSE color
            ELSE q.color[c]
        bad == {c \in LoopRange(q) : Throws(c)}
        looped == [q EXCEPT !.color = [c \in DOMAIN q.color |->
                      IF c \in LoopDone(q, bad) THEN Paint(c) ELSE q.color[c]]]
    IN IF bad # {} THEN [play |-> looped, threw |-> TRUE]
       ELSE UpdatePosition(looped)

\* onchange of Show Split Offs
ToggleSplits(p, show) ==
    LET q == [p EXCEPT !.showsplits = show]
        Throws(c) ==
            \/ c \notin DOMAIN q.Maze
            \/ (q.Maze[c].visited = TRUE /\ IsSplit(q, c) /\ c \notin q.divs)
        Paint(c) ==
            IF q.Maze[c].visited = TRUE /\ IsSplit(q, c)
            THEN IF show THEN SplitOffsColor
                 ELSE IF q.showpath = TRUE THEN VistedBGColor ELSE White
            ELSE q.color[c]
        bad == {c \in LoopRange(q) : Throws(c)}
    IN [play |-> [q EXCEPT !.color = [c \in DOMAIN q.color |->
                     IF c \in LoopDone(q, bad) THEN Paint(c) ELSE q.color[c]]],
        threw |-> bad # {}]

\* onchange of Show Current Stats: the livestats DIV is emptied or rewritten
ToggleCurrentStats(p, checked) ==
    [play |-> [p EXCEPT !.showstats = checked,
                        !.livestats = IF checked THEN "live" ELSE "",
                        !.showanswer = FALSE],
     threw |-> FALSE]

\* onclick of Show Answer, the checkbox ShowStats wrote
ToggleAnswer(p, show) ==
    LET q == [p EXCEPT !.showanswer = show]
        ThrowsShow(c) == IsAnswer(q, c[1], c[2]) /\ c \notin q.divs
        PaintShow(c) == IF IsAnswer(q, c[1], c[2]) THEN ANS_BG_COLOR ELSE q.color[c]
        ThrowsHide(c) ==
            \/ c \notin DOMAIN q.Maze
            \/ (q.Maze[c].visited = TRUE /\ c \notin q.divs)
        PaintHide(c) ==
            IF q.Maze[c].visited = TRUE
            THEN IF q.showsplits = TRUE /\ IsSplit(q, c) THEN SplitOffsColor
                 ELSE IF q.showpath = TRUE THEN VistedBGColor ELSE White
            ELSE q.color[c]
        Throws(c) == IF show THEN ThrowsShow(c) ELSE ThrowsHide(c)
        Paint(c) == IF show THEN PaintShow(c) ELSE PaintHide(c)
        bad == {c \in LoopRange(q) : Throws(c)}
    IN [play |-> [q EXCEPT !.color = [c \in DOMAIN q.color |->
                     IF c \in LoopDone(q, bad) THEN Paint(c) ELSE q.color[c]]],
        threw |-> bad # {}]

\* variant: the walk goes up the list, from a first call with index 0
UpdateAnswer_Upwards(p, k) ==
    LET index == Len(p.Solution_List) - 1 - p.playback[k].index
    IN IF p.playback[k].index < 0 \/ p.Current_Answer_Location \notin p.divs
       THEN [play |-> [p EXCEPT !.playback[k].timer = FALSE], threw |-> FALSE]
       ELSE [play |-> [p EXCEPT
                         !.color[p.Current_Answer_Location] = ANS_BG_COLOR,
                         !.Current_Answer_Location = p.Solution_List[index + 1],
                         !.playback[k] =
                             [timer |-> TRUE, index |-> p.playback[k].index - 1,
                              shown |-> Append(@.shown, p.Solution_List[index + 1])]],
             threw |-> FALSE]

\* variant: the player is put on the cell shown
UpdateAnswer_MovesPlayer(p, k) ==
    LET index == p.playback[k].index
    IN IF index < 0 \/ p.Current_Answer_Location \notin p.divs
       THEN [play |-> [p EXCEPT !.playback[k].timer = FALSE], threw |-> FALSE]
       ELSE [play |-> [p EXCEPT
                         !.color[p.Current_Answer_Location] = ANS_BG_COLOR,
                         !.Current_Answer_Location = p.Solution_List[index + 1],
                         !.Current_Location = p.Solution_List[index + 1],
                         !.playback[k] =
                             [timer |-> TRUE, index |-> index - 1,
                              shown |-> Append(@.shown, p.Solution_List[index + 1])]],
             threw |-> FALSE]

\* UpdateAnswer(index) of playback k, index being the argument its entry
\* holds: the cell shown so far is painted, the next one shown, and the call
\* for index - 1 left with setTimeout
UpdateAnswer(p, k) ==
    LET index == p.playback[k].index
        stopped == [p EXCEPT !.playback[k].timer = FALSE]
    IN IF index < 0 THEN [play |-> stopped, threw |-> FALSE]
       ELSE IF p.Current_Answer_Location \notin p.divs
       THEN [play |-> stopped, threw |-> TRUE]
       ELSE
           LET next == p.Solution_List[index + 1]
               moved == [stopped EXCEPT
                           !.color[p.Current_Answer_Location] = ANS_BG_COLOR,
                           !.Current_Answer_Location = next,
                           !.playback[k].shown = Append(@, next)]
           IN IF next \notin p.divs THEN [play |-> moved, threw |-> TRUE]
              ELSE [play |-> [moved EXCEPT !.playback[k].timer = TRUE,
                                           !.playback[k].index = index - 1],
                    threw |-> FALSE]

\* variant: the first call is made with the last index but one
PlayAnswer_SkipsLast(p) ==
    UpdateAnswer([p EXCEPT !.playback =
                     Append(@, [timer |-> TRUE, index |-> Len(p.Solution_List) - 2,
                                shown |-> << >>])],
                 Len(p.playback) + 1)

\* onclick of Play Answer: UpdateAnswer(Solution_List.length - 1)
PlayAnswer(p) ==
    UpdateAnswer([p EXCEPT !.playback =
                     Append(@, [timer |-> TRUE, index |-> Len(p.Solution_List) - 1,
                                shown |-> << >>])],
                 Len(p.playback) + 1)

\* ------------------------------------------------------------------- Init
PageLoad ==
    /\ WIDTH = DEFAULT_WIDTH
    /\ HEIGHT = DEFAULT_HEIGHT
    /\ STARTING_X = DEFAULT_WIDTH - 1
    /\ STARTING_Y = DEFAULT_HEIGHT - 1
    /\ ENTRANCE_X = 0
    /\ ENTRANCE_Y = 0
    /\ CELL_SIZE = DEFAULT_CELL_SIZE
    /\ ENTER = "3"
    /\ EXIT = "1"
    /\ Maze = EmptyMaze
    /\ Maze_HTML = << >>
    /\ Solution_List = << >>
    /\ Steps_to_Solve = 0
    /\ links = FALSE
    /\ dim_width = DEFAULT_WIDTH
    /\ dim_height = DEFAULT_HEIGHT
    /\ pc = "idle"
    /\ stack = << >>
    /\ outcome = "none"
    /\ Solver_ret = FALSE
    /\ solveRuns = 0

Init == PageLoad /\ play = NoWindow /\ trial = NoTrial /\ access = NoAccess

\* ---------------------------------------------------------------- actions
\* the user edits one dimension field; its onChange handler is UpdateDims
UpdateDims ==
    /\ pc = "idle"
    /\ \/ \E w \in 0..MaxWidth :
            /\ w # dim_width
            /\ dim_width' = w
            /\ dim_height' = dim_height
       \/ \E h \in 0..MaxHeight :
            /\ h # dim_height
            /\ dim_height' = h
            /\ dim_width' = dim_width
    /\ WIDTH' = dim_width'
    /\ HEIGHT' = dim_height'
    /\ outcome' = "UpdateDims"
    /\ UNCHANGED <<STARTING_X, STARTING_Y, ENTRANCE_X, ENTRANCE_Y, CELL_SIZE,
                   ENTER, EXIT, Maze, Maze_HTML, Solution_List, Steps_to_Solve,
                   links, pc, stack, Solver_ret, solveRuns, play, trial, access>>

\* the Generate! button, up to the first call of GenerateMaze
LoadMaze(f) ==
    LET entrance == GetEntrance(f.entrance, <<ENTRANCE_X, ENTRANCE_Y>>)
        exit == GetExit(f.exit, <<STARTING_X, STARTING_Y>>)
        cells == (0..(dim_width - 1)) \X (0..(dim_height - 1))
        created == [c \in cells |-> NewCell]
    IN
    /\ pc = "idle"
    /\ dim_width <= MaxWidth
    /\ dim_height <= MaxHeight
    /\ dim_width * dim_height <= MaxCells
    \* ResetValues
    /\ Maze_HTML' = ResetValues.Maze_HTML
    /\ Solution_List' = ResetValues.Solution_List
    /\ Steps_to_Solve' = ResetValues.Steps_to_Solve
    /\ solveRuns' = 0
    /\ Solver_ret' = FALSE
    \* GetEntrance, GetExit, UpdateEWall and the fields
    /\ ENTRANCE_X' = entrance[1]
    /\ ENTRANCE_Y' = entrance[2]
    /\ STARTING_X' = exit[1]
    /\ STARTING_Y' = exit[2]
    /\ ENTER' = f.wall_entrance
    /\ EXIT' = f.wall_exit
    /\ HEIGHT' = dim_height
    /\ WIDTH' = dim_width
    /\ CELL_SIZE' = f.cell_size
    \* an open play window keeps the arrays ResetValues has just replaced
    /\ play' = [play EXCEPT !.shared = FALSE]
    /\ UNCHANGED <<dim_width, dim_height, links, trial, access>>
    /\ IF ICanHazErrors(exit[1], exit[2], entrance[1], entrance[2],
                        dim_height, dim_width, f.cell_size)
       THEN \* alert and return
            /\ Maze' = ResetValues.Maze
            /\ pc' = "idle"
            /\ stack' = << >>
            /\ outcome' = "rejected"
       ELSE IF exit \notin cells
       THEN \* GenerateMaze dereferences a missing cell: TypeError
            /\ Maze' = created
            /\ pc' = "idle"
            /\ stack' = << >>
            /\ outcome' = "threw"
       ELSE \E random \in RandomIndices(Len(GetNeighbors(exit[1], exit[2]))) :
            LET entered == GenerateMazeEnter(created, << >>, exit[1], exit[2], random)
            IN /\ Maze' = entered.Maze
               /\ stack' = entered.stack
               /\ pc' = "GenerateMaze"
               /\ outcome' = "GenerateMaze"

\* the for loops of the active GenerateMaze invocations, run from the current
\* position up to the next recursive call (call = TRUE, the neighbor to enter
\* is next) or to the return of the outermost invocation (call = FALSE)
RECURSIVE RunLoops(_, _)
RunLoops(stk, maze) ==
    LET top == stk[Len(stk)]
        rest == SubSeq(stk, 1, Len(stk) - 1)
    IN IF top.i < Len(top.neighbors) THEN
           LET n == top.neighbors[top.i + 1]
               advanced == Append(rest, [top EXCEPT !.i = top.i + 1])
           IN IF maze[n].visited = FALSE
              THEN [call |-> TRUE, next |-> n, stack |-> advanced,
                    Maze |-> RemoveWall(maze, top.w, top.h, n)]
              ELSE RunLoops(advanced, maze)
       ELSE IF rest # << >> THEN RunLoops(rest, maze)
       ELSE [call |-> FALSE, next |-> <<top.w, top.h>>, stack |-> << >>, Maze |-> maze]

\* LoadMaze continued: the carving up to and including the next invocation of
\* GenerateMaze, or, when the outermost invocation returns, the rest of
\* LoadMaze (InstallDoors, DrawMaze, SolveMaze, the links)
GenerateMaze ==
    LET run == RunLoops(stack, Maze)
    IN
    /\ pc = "GenerateMaze"
    /\ IF run.call THEN
           \E random \in RandomIndices(Len(GetNeighbors(run.next[1], run.next[2]))) :
              LET entered == GenerateMazeEnter(run.Maze, run.stack,
                                               run.next[1], run.next[2], random)
              IN /\ Maze' = entered.Maze
                 /\ stack' = entered.stack
                 /\ UNCHANGED <<pc, outcome, Maze_HTML, Solution_List,
                                Steps_to_Solve, links, Solver_ret, solveRuns>>
       ELSE
           LET doors == InstallDoors(run.Maze)
               solved == SolveMaze(doors, Solution_List, Steps_to_Solve)
           IN /\ stack' = << >>
              /\ Maze_HTML' = DrawMaze(doors)
              /\ Maze' = solved.Maze
              /\ Solution_List' = solved.Solution_List
              /\ Steps_to_Solve' = solved.Steps_to_Solve
              /\ Solver_ret' = solved.ret
              /\ solveRuns' = solveRuns + 1
              /\ links' = TRUE
              /\ pc' = "idle"
              /\ outcome' = "generated"
    /\ UNCHANGED <<WIDTH, HEIGHT, STARTING_X, STARTING_Y, ENTRANCE_X, ENTRANCE_Y,
                   CELL_SIZE, ENTER, EXIT, dim_width, dim_height, play, trial, access>>

\* SolveMaze called once more on the grid LoadMaze left behind
SolveMazeAgain ==
    LET solved == SolveMaze(Maze, Solution_List, Steps_to_Solve)
    IN
    /\ pc = "idle"
    /\ outcome \in {"generated", "SolveMaze"}
    /\ solveRuns < MaxSolveRuns
    /\ Maze' = solved.Maze
    /\ Solution_List' = solved.Solution_List
    /\ Steps_to_Solve' = solved.Steps_to_Solve
    /\ Solver_ret' = solved.ret
    /\ solveRuns' = solveRuns + 1
    /\ outcome' = "SolveMaze"
    /\ UNCHANGED <<WIDTH, HEIGHT, STARTING_X, STARTING_Y, ENTRANCE_X, ENTRANCE_Y,
                   CELL_SIZE, ENTER, EXIT, Maze_HTML, links, dim_width,
                   dim_height, pc, stack, play, trial, access>>

\* the Play! button: the window is (re)written and solver.js runs in it
PlayPuzzle ==
    /\ pc = "idle"
    /\ links = TRUE
    /\ play' = LoadSolver
    /\ Maze' = play'.Maze
    /\ outcome' = IF play'.loaded THEN "PlayPuzzle" ELSE "PlayPuzzle TypeError"
    /\ UNCHANGED <<WIDTH, HEIGHT, STARTING_X, STARTING_Y, ENTRANCE_X, ENTRANCE_Y,
                   CELL_SIZE, ENTER, EXIT, Maze_HTML, Solution_List,
                   Steps_to_Solve, links, dim_width, dim_height, pc, stack,
                   Solver_ret, solveRuns, trial, access>>

\* a handler of the play window ends with result r; error keeps how it ended
\* when it did not act: refused by one of its tests, or in an uncaught exception.
\* LoadMaze is one task of the browser: no other handler runs inside it
PlayStep(r) ==
    /\ pc = "idle"
    /\ play.open
    /\ r.play.User_Moves <= MaxMoves
    /\ r.play.User_Jumps <= MaxJumps
    /\ play' = [r.play EXCEPT !.error =
                    IF r.outcome \in {"Move TypeError", "JumpHere TypeError"}
                    THEN r.outcome
                    ELSE IF r.outcome \in {"CheckStart", "wall", "unvisited"}
                    THEN "refused" ELSE ""]
    /\ Maze' = IF play.shared THEN r.play.Maze ELSE Maze
    /\ UNCHANGED <<WIDTH, HEIGHT, STARTING_X, STARTING_Y, ENTRANCE_X, ENTRANCE_Y,
                   CELL_SIZE, ENTER, EXIT, Maze_HTML, Solution_List,
                   Steps_to_Solve, links, dim_width, dim_height, pc, stack,
                   outcome, Solver_ret, solveRuns, trial, access>>

MoveUp == PlayStep(Move(play, 0))

MoveRight == PlayStep(Move(play, 1))

MoveDown == PlayStep(Move(play, 2))

MoveLeft == PlayStep(Move(play, 3))

JumpHereClick == \E c \in play.divs : PlayStep(JumpHere(play, c))

\* a handler of the play window's controls ends with result r
ControlStep(r, name) ==
    /\ pc = "idle"
    /\ play.open
    /\ play' = [r.play EXCEPT !.error = IF r.threw THEN name ELSE ""]
    /\ Maze' = IF play.shared THEN r.play.Maze ELSE Maze
    /\ UNCHANGED <<WIDTH, HEIGHT, STARTING_X, STARTING_Y, ENTRANCE_X, ENTRANCE_Y,
                   CELL_SIZE, ENTER, EXIT, Maze_HTML, Solution_List,
                   Steps_to_Solve, links, dim_width, dim_height, pc, stack,
                   outcome, Solver_ret, solveRuns, trial, access>>

\* the user clicks one of the three checkboxes under the maze
TogglePathChange ==
    ControlStep(TogglePath(play, ~play.showpath), "TogglePath TypeError")

ToggleSplitsChange ==
    ControlStep(ToggleSplits(play, ~play.showsplits), "ToggleSplits TypeError")

ToggleCurrentStatsChange ==
    ControlStep(ToggleCurrentStats(play, ~play.showstats), "")

\* the checkbox and the button of the final statistics
ToggleAnswerClick ==
    /\ play.livestats = "final"
    /\ ControlStep(ToggleAnswer(play, ~play.showanswer), "ToggleAnswer TypeError")

PlayAnswerClick ==
    /\ play.livestats = "final"
    /\ Len(play.playback) < MaxPlaybacks
    /\ ControlStep(PlayAnswer(play), "UpdateAnswer TypeError")

\* the Play Answer button is clicked while a call of an earlier playback is
\* still waiting in setTimeout
PlayAnswerAgain ==
    /\ play.livestats = "final"
    /\ \E k \in 1..Len(play.playback) : play.playback[k].timer
    /\ Len(play.playback) < MaxReplays
    /\ ControlStep(PlayAnswer(play), "UpdateAnswer TypeError")

\* a call left by setTimeout runs
UpdateAnswerTimeout ==
    \E k \in 1..Len(play.playback) :
        /\ play.playback[k].timer
        /\ ControlStep(UpdateAnswer(play, k), "UpdateAnswer TypeError")

\* ShuffleNeighbors is run on the next sequence of draws and its result tallied
ShuffleTrial ==
    LET n == Len(trial.neighbors)
        result == ShuffleNeighbors(trial.neighbors, RandomSequence(n, trial.next))
    IN
    /\ n > 0
    /\ trial.next < n ^ n
    /\ trial' = [trial EXCEPT !.next = @ + 1, !.count[result] = @ + 1]
    /\ UNCHANGED <<WIDTH, HEIGHT, STARTING_X, STARTING_Y, ENTRANCE_X, ENTRANCE_Y,
                   CELL_SIZE, ENTER, EXIT, Maze, Maze_HTML, Solution_List,
                   Steps_to_Solve, links, dim_width, dim_height, pc, stack,
                   outcome, Solver_ret, solveRuns, play, access>>

Next ==
    \/ UpdateDims
    \/ \E f \in FormInputs : LoadMaze(f)
    \/ GenerateMaze

Spec == Init /\ [][Next]_vars

NextResolve ==
    \/ UpdateDims
    \/ \E f \in FormInputs : LoadMaze(f)
    \/ GenerateMaze
    \/ SolveMazeAgain

SpecResolve == Init /\ [][NextResolve]_vars

\* one play session: once the play window is open the form of the generator
\* page is left alone
NextPlay ==
    \/ play.open = FALSE /\ UpdateDims
    \/ play.open = FALSE /\ \E f \in FormInputs : LoadMaze(f)
    \/ play.open = FALSE /\ GenerateMaze
    \/ PlayPuzzle
    \/ MoveUp
    \/ MoveRight
    \/ MoveDown
    \/ MoveLeft
    \/ JumpHereClick

SpecPlay == Init /\ [][NextPlay]_vars

\* play sessions on the first maze the page generates: moves, and clicks on
\* the checkboxes under the maze
NextToggle ==
    \/ links = FALSE /\ UpdateDims
    \/ links = FALSE /\ \E f \in FormInputs : LoadMaze(f)
    \/ GenerateMaze
    \/ PlayPuzzle
    \/ MoveUp
    \/ MoveRight
    \/ MoveDown
    \/ MoveLeft
    \/ TogglePathChange
    \/ ToggleSplitsChange
    \/ ToggleCurrentStatsChange
    \/ ToggleAnswerClick

SpecToggle == Init /\ [][NextToggle]_vars

\* a playback has a call waiting in setTimeout
PlaybackPending == \E k \in 1..Len(play.playback) : play.playback[k].timer

\* the form as the last LoadMaze read it
SameForm ==
    { [entrance |-> e, wall_entrance |-> ENTER, exit |-> x, wall_exit |-> EXIT,
       cell_size |-> CELL_SIZE] :
        e \in { l \in EntranceLocations :
                   /\ GetEntrance(l, <<ENTRANCE_X, ENTRANCE_Y>>) = <<ENTRANCE_X, ENTRANCE_Y>>
                   /\ ENTER \in EntranceWallOptions(l) },
        x \in { l \in ExitLocations :
                   /\ GetExit(l, <<STARTING_X, STARTING_Y>>) = <<STARTING_X, STARTING_Y>>
                   /\ EXIT \in ExitWallOptions(l) } }

\* a play session on the first maze the page generates, played to the end,
\* and the playback of its answer; while a playback runs the Generate! button
\* is pressed again on the same form
NextAnswer ==
    \/ links = FALSE /\ UpdateDims
    \/ links = FALSE /\ \E f \in FormInputs : LoadMaze(f)
    \/ PlaybackPending /\ \E f \in SameForm : LoadMaze(f)
    \/ GenerateMaze
    \/ play.open = FALSE /\ PlayPuzzle
    \/ MoveUp
    \/ MoveRight
    \/ MoveDown
    \/ MoveLeft
    \/ PlayAnswerClick
    \/ UpdateAnswerTimeout

SpecAnswer == Init /\ [][NextAnswer]_vars

\* a play session on the first maze the page generates, played to the end,
\* with the Play Answer button clicked at any time after that
NextReplay ==
    \/ links = FALSE /\ UpdateDims
    \/ links = FALSE /\ \E f \in FormInputs : LoadMaze(f)
    \/ GenerateMaze
    \/ play.open = FALSE /\ PlayPuzzle
    \/ MoveUp
    \/ MoveRight
    \/ MoveDown
    \/ MoveLeft
    \/ PlayAnswerClick
    \/ PlayAnswerAgain
    \/ UpdateAnswerTimeout

SpecReplay == Init /\ [][NextReplay]_vars

\* one play session on the first maze the page generates, with every handler
\* of the play window: moves, clicks on cells, the four checkboxes and the
\* playback of the answer
NextSession ==
    \/ links = FALSE /\ UpdateDims
    \/ links = FALSE /\ \E f \in FormInputs : LoadMaze(f)
    \/ GenerateMaze
    \/ play.open = FALSE /\ PlayPuzzle
    \/ MoveUp
    \/ MoveRight
    \/ MoveDown
    \/ MoveLeft
    \/ JumpHereClick
    \/ TogglePathChange
    \/ ToggleSplitsChange
    \/ ToggleCurrentStatsChange
    \/ ToggleAnswerClick
    \/ PlayAnswerClick
    \/ UpdateAnswerTimeout

SpecSession == Init /\ [][NextSession]_vars

\* a play window over a single cell with the wall flags walls, to run
\* CountOpenings and ToggleSplits on every value a cell can hold
ProbeWindow(walls, visited, showpath) ==
    [NoWindow EXCEPT
        !.open = TRUE, !.loaded = TRUE, !.WIDTH = 1, !.HEIGHT = 1,
        !.divs = {<<0, 0>>},
        !.Maze = [c \in {<<0, 0>>} |-> [wall |-> walls, visited |-> visited]],
        !.showpath = showpath,
        !.color = [c \in {<<0, 0>>} |->
                     IF visited /\ showpath THEN VistedBGColor ELSE White]]

InitOpenings ==
    /\ PageLoad
    /\ trial = NoTrial
    /\ access = NoAccess
    /\ play \in {ProbeWindow(walls, visited, showpath) :
                    walls \in [Sides -> {0, 1}], visited \in BOOLEAN,
                    showpath \in BOOLEAN}

NextOpenings == ToggleSplitsChange

SpecOpenings == InitOpenings /\ [][NextOpenings]_vars

\* the first statements of Solver(x, y) on a cell that is not the exit: the
\* cell is marked and GetNeighborAccess(x, y) is called
SolverVisit ==
    LET marked == [Maze EXCEPT ![<<access.x, access.y>>].visited = TRUE]
    IN
    /\ access.called = FALSE
    /\ <<access.x, access.y>> \in DOMAIN Maze
    /\ Maze' = marked
    /\ access' = [access EXCEPT
                     !.called = TRUE,
                     !.neighbors = GetNeighborAccess(marked, access.x, access.y),
                     !.reads = GetNeighborAccessReads(marked, access.x, access.y)]
    /\ UNCHANGED <<WIDTH, HEIGHT, STARTING_X, STARTING_Y, ENTRANCE_X, ENTRANCE_Y,
                   CELL_SIZE, ENTER, EXIT, Maze_HTML, Solution_List,
                   Steps_to_Solve, links, dim_width, dim_height, pc, stack,
                   outcome, Solver_ret, solveRuns, play, trial>>

\* the cells beside (x, y) in a grid of w columns and h rows
GridNeighbors(x, y, w, h) ==
    {c \in (0..(w - 1)) \X (0..(h - 1)) :
        \/ c[1] = x /\ (c[2] = y - 1 \/ c[2] = y + 1)
        \/ c[2] = y /\ (c[1] = x - 1 \/ c[1] = x + 1)}

\* a grid as the Solver meets it: cell (x, y) with the wall flags walls, the
\* cells in seen already visited
ProbeGrid(w, h, x, y, walls, seen) ==
    [c \in (0..(w - 1)) \X (0..(h - 1)) |->
        IF c = <<x, y>> THEN [wall |-> walls, visited |-> FALSE]
        ELSE [wall |-> NewCell.wall, visited |-> c \in seen]]

\* GetNeighborAccess alone: every grid up to MaxGrid x MaxGrid, every cell of
\* it, every value of its four wall flags (doors on the boundary included)
\* and every set of visited neighbors
InitAccess ==
    /\ \E w \in 1..MaxGrid, h \in 1..MaxGrid :
          \E x \in 0..(w - 1), y \in 0..(h - 1) :
             \E walls \in [Sides -> {0, 1}], seen \in SUBSET GridNeighbors(x, y, w, h) :
                /\ WIDTH = w
                /\ HEIGHT = h
                /\ Maze = ProbeGrid(w, h, x, y, walls, seen)
                /\ access = [NoAccess EXCEPT !.x = x, !.y = y]
    /\ dim_width = WIDTH
    /\ dim_height = HEIGHT
    /\ STARTING_X = DEFAULT_WIDTH - 1
    /\ STARTING_Y = DEFAULT_HEIGHT - 1
    /\ ENTRANCE_X = 0
    /\ ENTRANCE_Y = 0
    /\ CELL_SIZE = DEFAULT_CELL_SIZE
    /\ ENTER = "3"
    /\ EXIT = "1"
    /\ Maze_HTML = << >>
    /\ Solution_List = << >>
    /\ Steps_to_Solve = 0
    /\ links = FALSE
    /\ pc = "idle"
    /\ stack = << >>
    /\ outcome = "none"
    /\ Solver_ret = FALSE
    /\ solveRuns = 0
    /\ play = NoWindow
    /\ trial = NoTrial

NextAccess == SolverVisit

SpecAccess == InitAccess /\ [][NextAccess]_vars

\* the first statements of GenerateMaze(w, h) on a cell of a new grid: the
\* cell is marked, its neighbors are collected by GetNeighbors and shuffled
\* by ShuffleNeighbors, on any sequence of random draws
GenerateMazeCall ==
    /\ stack = << >>
    /\ \E c \in DOMAIN Maze :
          \E random \in RandomIndices(Len(GetNeighbors(c[1], c[2]))) :
             LET entered == GenerateMazeEnter(Maze, << >>, c[1], c[2], random)
             IN /\ Maze' = entered.Maze
                /\ stack' = entered.stack
    /\ UNCHANGED <<WIDTH, HEIGHT, STARTING_X, STARTING_Y, ENTRANCE_X, ENTRANCE_Y,
                   CELL_SIZE, ENTER, EXIT, Maze_HTML, Solution_List,
                   Steps_to_Solve, links, dim_width, dim_height, pc,
                   outcome, Solver_ret, solveRuns, play, trial, access>>

\* GetNeighbors and ShuffleNeighbors alone: every grid up to MaxGrid x
\* MaxGrid as LoadMaze creates it, every cell of it
InitNeighbors ==
    /\ \E w \in 1..MaxGrid, h \in 1..MaxGrid :
          /\ WIDTH = w
          /\ HEIGHT = h
          /\ Maze = [c \in (0..(w - 1)) \X (0..(h - 1)) |-> NewCell]
    /\ dim_width = WIDTH
    /\ dim_height = HEIGHT
    /\ STARTING_X = DEFAULT_WIDTH - 1
    /\ STARTING_Y = DEFAULT_HEIGHT - 1
    /\ ENTRANCE_X = 0
    /\ ENTRANCE_Y = 0
    /\ CELL_SIZE = DEFAULT_CELL_SIZE
    /\ ENTER = "3"
    /\ EXIT = "1"
    /\ Maze_HTML = << >>
    /\ Solution_List = << >>
    /\ Steps_to_Solve = 0
    /\ links = FALSE
    /\ pc = "idle"
    /\ stack = << >>
    /\ outcome = "none"
    /\ Solver_ret = FALSE
    /\ solveRuns = 0
    /\ play = NoWindow
    /\ trial = NoTrial
    /\ access = NoAccess

NextNeighbors == GenerateMazeCall

SpecNeighbors == InitNeighbors /\ [][NextNeighbors]_vars

\* ShuffleNeighbors alone, on every list length it is called with and on every
\* sequence of draws
InitShuffle ==
    /\ PageLoad
    /\ play = NoWindow
    /\ trial \in {NewTrial(n) : n \in 2..MaxNeighbors}
    /\ access = NoAccess

NextShuffle == ShuffleTrial

SpecShuffle == InitShuffle /\ [][NextShuffle]_vars

\* ----------------------------------------------------------- vocabulary
\* LoadMaze has just completed: the grid, the doors and the solution are
\* those of the configuration held by the globals
Generated == outcome = "generated"

Entrance == <<ENTRANCE_X, ENTRANCE_Y>>

Exit == <<STARTING_X, STARTING_Y>>

InGrid(c) == c[1] >= 0 /\ c[1] < WIDTH /\ c[2] >= 0 /\ c[2] < HEIGHT

Cells == (0..(WIDTH - 1)) \X (0..(HEIGHT - 1))

\* the cell on side d of cell c
Beside(c, d) ==
    CASE d = 0 -> <<c[1], c[2] - 1>>
      [] d = 1 -> <<c[1] + 1, c[2]>>
      [] d = 2 -> <<c[1], c[2] + 1>>
      [] d = 3 -> <<c[1] - 1, c[2]>>

Opposite(d) == (d + 2) % 4

\* the wall between c and its in-grid neighbor on side d is open on both sides
Passage(c, d) ==
    /\ InGrid(Beside(c, d))
    /\ Maze[c].wall[d] = 0
    /\ Maze[Beside(c, d)].wall[Opposite(d)] = 0

\* internal walls, each named by the cell on its left or upper side, that are
\* open on at least one of their two sides
OpenInternalWalls ==
    { p \in Cells \X {1, 2} :
        /\ InGrid(Beside(p[1], p[2]))
        /\ \/ Maze[p[1]].wall[p[2]] = 0
           \/ Maze[Beside(p[1], p[2])].wall[Opposite(p[2])] = 0 }

\* wall flags on the outer boundary that are open
OpenBoundaryFlags ==
    { p \in Cells \X Sides : ~InGrid(Beside(p[1], p[2])) /\ Maze[p[1]].wall[p[2]] = 0 }

RECURSIVE ReachFrom(_)
ReachFrom(S) ==
    LET T == S \cup { Beside(c, d) : <<c, d>> \in { q \in S \X Sides : Passage(q[1], q[2]) } }
    IN IF T = S THEN S ELSE ReachFrom(T)

Adjacent(a, b) == \E d \in Sides : b = Beside(a, d) /\ Passage(a, d)

\* ----------------------------------------------------------------- claims

\* C1: after a completed LoadMaze, for every two adjacent in-grid cells A and
\* B, A's wall flag facing B is open exactly when B's flag facing A is open,
\* whatever corner and wall values the form supplied.  (Stated as claimed.)
C1_PairedWalls ==
    Generated =>
        \A c \in Cells, d \in Sides :
            InGrid(Beside(c, d)) =>
                ((Maze[c].wall[d] = 0) <=> (Maze[Beside(c, d)].wall[Opposite(d)] = 0))

\* C2: after a completed LoadMaze the number of open internal walls is
\* exactly WIDTH*HEIGHT - 1.  (Stated as claimed.)
C2_SpanningTreeCount ==
    Generated => Cardinality(OpenInternalWalls) = WIDTH * HEIGHT - 1

\* C3: after a completed LoadMaze every cell is reachable from every other
\* cell through walls (between in-grid neighbors) that are open.
C3_Connected ==
    Generated => \A c \in Cells : ReachFrom({c}) = Cells

C3_Witness ==
    /\ Generated
    /\ WIDTH = 2 /\ HEIGHT = 2
    /\ ~Passage(<<0, 0>>, 1)
    /\ ReachFrom({<<0, 0>>}) = Cells

\* C4: after a completed LoadMaze the open flags on the outer boundary are
\* exactly the ENTER side of the entrance cell and the EXIT side of the exit
\* cell, two different cells.  (Stated as claimed.)
C4_TwoDoors ==
    Generated =>
        /\ Entrance # Exit
        /\ OpenBoundaryFlags = { <<Entrance, ToNumber(ENTER)>>, <<Exit, ToNumber(EXIT)>> }

\* C5: a LoadMaze that validation rejects leaves Maze, Maze_HTML,
\* Solution_List and Steps_to_Solve as they were.  (Stated as claimed.)
C5_RejectKeepsState ==
    [][outcome' = "rejected" =>
          /\ Maze' = Maze
          /\ Maze_HTML' = Maze_HTML
          /\ Solution_List' = Solution_List
          /\ Steps_to_Solve' = Steps_to_Solve]_vars

\* the conditions under which the claim says LoadMaze must not carve
InvalidConfiguration ==
    \/ (STARTING_X = ENTRANCE_X /\ STARTING_Y = ENTRANCE_Y)
    \/ WIDTH <= 0
    \/ HEIGHT <= 0
    \/ BORDER_WIDTH <= 0
    \/ BORDER_WIDTH >= CELL_SIZE
    \/ CELL_SIZE < 4

\* C6: whenever the configuration LoadMaze read has coinciding entrance and
\* exit, a dimension <= 0, a border <= 0 or >= the cell size, or a cell size
\* below 4, LoadMaze has returned without creating a cell and without
\* calling GenerateMaze, InstallDoors or SolveMaze.
C6_ValidatedBeforeCarving ==
    (outcome \in {"rejected", "threw", "GenerateMaze", "generated"} /\ InvalidConfiguration)
        => /\ outcome = "rejected"
           /\ pc = "idle"
           /\ stack = << >>
           /\ DOMAIN Maze = {}
           /\ Maze_HTML = << >>
           /\ Solution_List = << >>
           /\ solveRuns = 0

C6_Witness ==
    /\ outcome = "rejected"
    /\ STARTING_X = ENTRANCE_X /\ STARTING_Y = ENTRANCE_Y
    /\ WIDTH = 2 /\ HEIGHT = 2
    /\ CELL_SIZE = 10
    /\ DOMAIN Maze = {}

\* C7: on every grid a completed LoadMaze produced, the Solver call started
\* at the entrance cell returned true.
C7_SolverSucceeds == Generated => Solver_ret = TRUE

\* a grid where the Solver first explored a dead end
C7_Witness ==
    /\ Generated
    /\ Solver_ret = TRUE
    /\ \E c \in Cells :
          /\ Maze[c].visited
          /\ \A k \in 1..Len(Solution_List) : Solution_List[k] # c

\* C8: after SolveMaze on a freshly generated grid, Solution_List starts
\* with the exit cell, ends with the entrance cell, holds no cell twice, and
\* every two consecutive elements are neighbors joined by an open wall.
C8_PathShape ==
    Generated =>
        /\ Len(Solution_List) >= 2
        /\ Solution_List[1] = Exit
        /\ Solution_List[Len(Solution_List)] = Entrance
        /\ \A j, k \in 1..Len(Solution_List) :
              j # k => Solution_List[j] # Solution_List[k]
        /\ \A k \in 1..(Len(Solution_List) - 1) :
              Adjacent(Solution_List[k], Solution_List[k + 1])

C8_Witness ==
    /\ Generated
    /\ Len(Solution_List) = 4
    /\ Solution_List[1] = Exit
    /\ Solution_List[4] = Entrance

\* C9: after SolveMaze on a freshly generated grid, Steps_to_Solve is the
\* length of Solution_List minus 1.
C9_StepsIsLengthMinusOne ==
    Generated => Steps_to_Solve = Len(Solution_List) - 1

\* the longest path of a 2 x 2 grid: four cells, three steps
C9_Witness ==
    /\ Generated
    /\ WIDTH = 2 /\ HEIGHT = 2
    /\ Len(Solution_List) = 4
    /\ Steps_to_Solve = 3

\* C10: SolveMaze run a second time on the same grid yields the same
\* Solution_List and Steps_to_Solve as the first run.  (Stated as claimed.)
C10_SolveIdempotent ==
    [][outcome' = "SolveMaze" =>
          /\ Solution_List' = Solution_List
          /\ Steps_to_Solve' = Steps_to_Solve]_vars

\* ------------------------------------------------------- play vocabulary
\* the play window has started and the maze is not yet solved
Playing == play.open /\ play.loaded /\ play.Current_Location # Sentinel

\* the player has left through the exit door
Finished == play.open /\ play.loaded /\ play.Current_Location = Sentinel

VisitedCells(p) == {c \in DOMAIN p.Maze : p.Maze[c].visited = TRUE}

\* current location, the two counters and the visited flags
Navigation(p) ==
    <<p.Current_Location, p.User_Moves, p.User_Jumps, VisitedCells(p)>>

\* the wall flag of the current cell on side d
CurrentWall(d) == play.Maze[play.Current_Location].wall[d]

AtEntrance == play.Current_Location = <<play.Start_X, play.Start_Y>>

AtExit == play.Current_Location = <<play.End_X, play.End_Y>>

\* the handler of direction d runs
MoveStep(d) == PlayStep(Move(play, d))

\* ------------------------------------------------------------------ C11
\* C11: while Playing, a move towards a side of the current cell whose wall
\* flag is 1 leaves the location, User_Moves, User_Jumps and the visited
\* flags as they were
C11_ClosedWallNoOp ==
    [][\A d \in Sides :
         (Playing /\ CurrentWall(d) = 1 /\ MoveStep(d))
             => Navigation(play') = Navigation(play)]_vars

\* in the middle of a session a handler has refused to act and the player
\* stands against a wall
C11_Witness ==
    /\ Playing
    /\ play.error = "refused"
    /\ play.User_Moves > 0
    /\ \E d \in Sides : CurrentWall(d) = 1

C13_EntranceEgressRefused ==
    [][\A d \in Sides :
         (Playing /\ AtEntrance /\ LooseEq(play.Enter, d) /\ MoveStep(d))
             => /\ CurrentWall(d) = 0
                /\ Navigation(play') = Navigation(play)
                /\ play'.Current_Location # Sentinel
                /\ play'.loaded]_vars

\* the player has come back to the entrance cell, the entrance door beside
C13_Witness ==
    /\ Playing
    /\ AtEntrance
    /\ play.error = "refused"
    /\ \E d \in Sides : LooseEq(play.Enter, d) /\ CurrentWall(d) = 0
    /\ play.User_Moves >= 2

\* a click on the DIV of cell c is handled
JumpStep(c) == PlayStep(JumpHere(play, c))

C15_MoveAfterFinishRefused ==
    [][\A d \in Sides :
         (Finished /\ MoveStep(d))
             => /\ Navigation(play') = Navigation(play)
                /\ play'.error # "Move TypeError"]_vars

C17_JumpUnvisitedNoOp ==
    [][\A c \in play.divs :
         (Playing /\ play.Maze[c].visited = FALSE /\ JumpStep(c))
             => Navigation(play') = Navigation(play)]_vars

\* after a move some cell of the maze is still unvisited and can be clicked
C17_Witness ==
    /\ Playing
    /\ play.error = "refused"
    /\ play.User_Moves = 1
    /\ play.User_Jumps = 0
    /\ \E c \in play.divs : play.Maze[c].visited = FALSE

\* ------------------------------------------------------------------ C18
\* C18: while Playing, a click on a cell whose visited flag is true puts the
\* player on that cell and adds exactly 1 to User_Jumps; User_Moves and the
\* set of visited cells stay as they were
C18_JumpVisited ==
    [][\A c \in play.divs :
         (Playing /\ play.Maze[c].visited = TRUE /\ JumpStep(c))
             => /\ play'.Current_Location = c
                /\ play'.User_Jumps = play.User_Jumps + 1
                /\ play'.User_Moves = play.User_Moves
                /\ VisitedCells(play') = VisitedCells(play)]_vars

\* the player has just jumped back to the entrance cell
C18_Witness ==
    /\ Playing
    /\ play.User_Jumps = 1
    /\ play.User_Moves >= 1
    /\ AtEntrance

\* ------------------------------------------------------------------ C19
\* cells of the generator's grid whose visited flag is set
Carved == {c \in DOMAIN Maze : Maze[c].visited = TRUE}

\* C19: GenerateMaze, started by LoadMaze at the exit cell of a fresh grid,
\* terminates whatever the shuffles give: the first invocation marks the exit
\* cell only, every further invocation marks exactly one more cell of the
\* grid, and when the outermost invocation returns every cell is marked
C19_CarvingTerminates ==
    [][/\ (pc = "idle" /\ pc' = "GenerateMaze")
            => /\ DOMAIN Maze' = (0..(WIDTH' - 1)) \X (0..(HEIGHT' - 1))
               /\ {c \in DOMAIN Maze' : Maze'[c].visited = TRUE}
                      = {<<STARTING_X', STARTING_Y'>>}
       /\ (pc = "GenerateMaze" /\ pc' = "GenerateMaze")
            => /\ Carved \subseteq {c \in DOMAIN Maze' : Maze'[c].visited = TRUE}
               /\ Cardinality({c \in DOMAIN Maze' : Maze'[c].visited = TRUE})
                      = Cardinality(Carved) + 1
       /\ (pc = "GenerateMaze" /\ pc' = "idle")
            => Carved = DOMAIN Maze]_vars

\* the last invocation on a 2x2 grid is about to return: all four cells marked
C19_Witness ==
    /\ pc = "GenerateMaze"
    /\ Cardinality(DOMAIN Maze) = 4
    /\ Carved = DOMAIN Maze
    /\ Len(stack) = 4

\* ------------------------------------------------------------------ C20
\* C20: ShuffleNeighbors is unbiased: once all the n^n sequences of draws
\* have been run on a list of n neighbors (2 <= n <= 4), every order of the
\* list has come out the same number of times
C20_Unbiased ==
    (trial.neighbors # << >> /\ trial.next = Len(trial.neighbors) ^ Len(trial.neighbors))
        => \A q1, q2 \in DOMAIN trial.count : trial.count[q1] = trial.count[q2]

\* ------------------------------------------------------------------ C21
\* the Play! button is on the page and no handler is running
PlayAvailable == pc = "idle" /\ links = TRUE

\* C21: whenever play can be started, Maze is a carved grid with both doors
\* installed and Solution_List / Steps_to_Solve hold its solution, also after
\* a LoadMaze that validation rejected.  (Stated as claimed.)
C21_PlayableMaze ==
    PlayAvailable =>
        /\ DOMAIN Maze # {}
        /\ \A c \in DOMAIN Maze : \E d \in Sides : Maze[c].wall[d] = 0
        /\ Entrance \in DOMAIN Maze
        /\ Maze[Entrance].wall[ToNumber(ENTER)] = 0
        /\ Exit \in DOMAIN Maze
        /\ Maze[Exit].wall[ToNumber(EXIT)] = 0
        /\ Len(Solution_List) >= 2
        /\ Solution_List[1] = Exit
        /\ Solution_List[Len(Solution_List)] = Entrance
        /\ Steps_to_Solve = Len(Solution_List) - 1

\* ------------------------------------------------------------------ C22
\* the player has made User_Moves moves along the solution path, from its
\* last element (the entrance cell) towards its first, and no jump
OnPath(p) ==
    /\ p.User_Jumps = 0
    /\ Len(p.Solution_List) = p.Steps_to_Solve + 1
    /\ p.User_Moves <= p.Steps_to_Solve
    /\ p.Current_Location = p.Solution_List[Len(p.Solution_List) - p.User_Moves]

C30_VisitedIsStoodOn ==
    [][/\ (PlayPuzzle /\ play'.loaded)
            => VisitedCells(play') = {<<play'.Start_X, play'.Start_Y>>}
       /\ (Playing /\ play'.loaded /\ ~PlayPuzzle)
            => /\ VisitedCells(play) \subseteq VisitedCells(play')
               /\ VisitedCells(play') \subseteq
                      VisitedCells(play) \cup {play'.Current_Location}]_vars

\* ------------------------------------------------------------------ C23
\* the sides of cell c whose wall flag is open
OpenSides(p, c) == {d \in Sides : p.Maze[c].wall[d] = 0}

\* C23: CountOpenings is the number of the four wall flags of a cell that are
\* open, and a click on Show Split Offs colours a visited cell as a split
\* exactly when that number is 3 or 4 and the box is checked; a cell with two
\* open sides or fewer keeps its colour
C23_DecisionCell ==
    [][\A c \in DOMAIN play.color :
         (ToggleSplitsChange /\ play.Maze[c].visited = TRUE)
             => /\ CountOpenings(play.Maze, c[1], c[2]) = Cardinality(OpenSides(play, c))
                /\ (play'.color[c] = SplitOffsColor)
                      <=> (Cardinality(OpenSides(play, c)) >= 3 /\ play'.showsplits)
                /\ Cardinality(OpenSides(play, c)) <= 2
                      => play'.color[c] = play.color[c]]_vars

\* a visited cell open on all four sides is shown as a split
C23_Witness ==
    /\ play.showsplits
    /\ play.Maze[<<0, 0>>].visited = TRUE
    /\ OpenSides(play, <<0, 0>>) = Sides
    /\ play.color[<<0, 0>>] = SplitOffsColor

\* ------------------------------------------------------------------ C24
\* C24: a playback shows the coordinates of Solution_List one per call of
\* UpdateAnswer, from the last element down to index 0, none twice; the call
\* waiting is the one for the next index down, and once no call is waiting
\* the whole list has been shown and nothing more
C24_PlaybackOrder ==
    \A k \in 1..Len(play.playback) :
        LET b == play.playback[k]
            L == Len(play.Solution_List)
        IN /\ Len(b.shown) <= L
           /\ \A i \in 1..Len(b.shown) : b.shown[i] = play.Solution_List[L + 1 - i]
           /\ \A i, j \in 1..Len(b.shown) : i # j => b.shown[i] # b.shown[j]
           /\ b.timer => b.index = L - 1 - Len(b.shown)
           /\ ~b.timer => Len(b.shown) = L

\* the answer of a 2x2 maze, three cells or more, has been played to its end
C24_Witness ==
    \E k \in 1..Len(play.playback) :
        /\ play.playback[k].timer = FALSE
        /\ Len(play.playback[k].shown) >= 3
        /\ Len(play.playback[k].shown) = Len(play.Solution_List)

\* ------------------------------------------------------------------ C25
\* C25 as stated: the first coordinate a playback shows is the exit cell and
\* the last one is the entrance cell
C25_ExitToEntrance ==
    \A k \in 1..Len(play.playback) :
        LET b == play.playback[k]
        IN b.shown # << >> =>
              /\ b.shown[1] = <<play.End_X, play.End_Y>>
              /\ ~b.timer => b.shown[Len(b.shown)] = <<play.Start_X, play.Start_Y>>

\* C25 amended: the first coordinate a playback shows is the entrance cell
\* and the last one is the exit cell
C25_EntranceToExit ==
    \A k \in 1..Len(play.playback) :
        LET b == play.playback[k]
        IN b.shown # << >> =>
              /\ b.shown[1] = <<play.Start_X, play.Start_Y>>
              /\ ~b.timer => b.shown[Len(b.shown)] = <<play.End_X, play.End_Y>>

\* a playback has come to its end on the exit cell
C25_Witness ==
    /\ Finished
    /\ \E k \in 1..Len(play.playback) :
          /\ play.playback[k].timer = FALSE
          /\ play.playback[k].shown # << >>
          /\ play.Current_Answer_Location = <<play.End_X, play.End_Y>>
          /\ play.color[<<play.Start_X, play.Start_Y>>] = ANS_BG_COLOR

\* ------------------------------------------------------------------ C26
\* C26: once the page has generated a new maze while a playback was running,
\* no call of UpdateAnswer left by setTimeout runs any more.  (Stated as
\* claimed.)
C26_PlaybackCancelled ==
    [][(play.open /\ outcome = "generated") => ~UpdateAnswerTimeout]_vars

\* ------------------------------------------------------------------ C27
\* C27: PlayAnswer and every later call of UpdateAnswer leave the current
\* location, User_Moves, User_Jumps, the wall and visited flags and
\* Solution_List as they were
C27_PlaybackFrame ==
    [][(PlayAnswerClick \/ UpdateAnswerTimeout)
          => /\ Navigation(play') = Navigation(play)
             /\ play'.Maze = play.Maze
             /\ play'.Solution_List = play.Solution_List
             /\ play'.Steps_to_Solve = play.Steps_to_Solve]_vars

\* a playback is on its way: two cells shown, a call waiting
C27_Witness ==
    /\ Finished
    /\ play.User_Moves >= 1
    /\ \E k \in 1..Len(play.playback) :
          /\ play.playback[k].timer
          /\ Len(play.playback[k].shown) = 2

\* ------------------------------------------------------------------ C28
\* C28: in a session that is Playing or Finished, a click on Show Visited
\* Path, Show Split Offs, Show Current Stats or Show Answer leaves the current
\* location, User_Moves, User_Jumps, the wall flags and the visited flags as
\* they were (a click is the step in which the box changes and its handler
\* runs)
C28_TogglesFrame ==
    [][((Playing \/ Finished)
          /\ \/ (play'.showpath # play.showpath /\ TogglePathChange)
             \/ (play'.showsplits # play.showsplits /\ ToggleSplitsChange)
             \/ (play'.showstats # play.showstats /\ ToggleCurrentStatsChange)
             \/ (play'.showanswer # play.showanswer /\ ToggleAnswerClick))
          => /\ Navigation(play') = Navigation(play)
             /\ play'.Maze = play.Maze]_vars

\* every box has been clicked, the last ones after the maze was solved
C28_Witness ==
    /\ Finished
    /\ play.showstats
    /\ play.showsplits
    /\ play.showanswer
    /\ play.showpath
    /\ play.error = "TogglePath TypeError"

\* ------------------------------------------------------------------ C31
\* C31: when the Play! button starts a session, the player stands on the
\* entrance cell of the generator page with User_Moves = 0 and User_Jumps = 0,
\* and once Start() has run the session is Playing; this holds as well when
\* Play! is pressed again in the middle of a session
C31_SessionStart ==
    [][(outcome' \in {"PlayPuzzle", "PlayPuzzle TypeError"} /\ PlayPuzzle)
          => /\ play'.Current_Location = <<ENTRANCE_X, ENTRANCE_Y>>
             /\ play'.Current_Location = <<play'.Start_X, play'.Start_Y>>
             /\ play'.User_Moves = 0
             /\ play'.User_Jumps = 0
             /\ play'.loaded => (Playing' /\ play'.stats = 0)]_vars

\* a session has just started on a 2 x 2 maze
C31_Witness ==
    /\ Playing
    /\ outcome = "PlayPuzzle"
    /\ play.WIDTH = 2 /\ play.HEIGHT = 2
    /\ AtEntrance
    /\ play.User_Moves = 0
    /\ play.User_Jumps = 0
    /\ VisitedCells(play) = {<<play.Start_X, play.Start_Y>>}

\* ------------------------------------------------------------------ C32
\* the cells GetNeighborAccess has to return for cell c, in the order top,
\* right, bottom, left
AccessibleFrom(c) ==
    LET sides == SelectSeq(<<0, 1, 2, 3>>,
                           LAMBDA d : /\ InGrid(Beside(c, d))
                                      /\ Maze[c].wall[d] = 0
                                      /\ Maze[Beside(c, d)].visited = FALSE)
    IN [i \in 1..Len(sides) |-> Beside(c, sides[i])]

\* C32: for any in-bounds cell GetNeighborAccess returns exactly the in-bounds
\* adjacent cells whose wall on that cell is open and whose visited flag is
\* false, in the order top, right, bottom, left, and it reads the visited
\* flag of no coordinate outside the grid, a door on the boundary included
C32_NeighborAccess ==
    access.called =>
        /\ access.neighbors = AccessibleFrom(<<access.x, access.y>>)
        /\ access.reads \subseteq Cells
        /\ \A k \in 1..Len(access.neighbors) : InGrid(access.neighbors[k])

\* a corner cell with all four flags open, two of them on the boundary, and
\* both of its neighbors unvisited
C32_Witness ==
    /\ access.called
    /\ WIDTH = 2 /\ HEIGHT = 2
    /\ <<access.x, access.y>> = <<0, 0>>
    /\ \A d \in Sides : Maze[<<0, 0>>].wall[d] = 0
    /\ access.neighbors = << <<1, 0>>, <<0, 1>> >>

\* ------------------------------------------------------------------ C33
\* C33: in every Finished state User_Moves >= Steps_to_Solve >= 1, whatever
\* jumps were made, so that the accuracy Steps_to_Solve / User_Moves * 100 of
\* ShowStats has a divisor other than 0 and is at most 100.  (Stated as
\* claimed.)
C33_AccuracyBounded ==
    Finished =>
        /\ play.Steps_to_Solve >= 1
        /\ play.User_Moves >= play.Steps_to_Solve

\* ------------------------------------------------------------------ C34
\* C34: in every reachable navigation state the current location is the
\* sentinel or a cell with 0 <= x < WIDTH and 0 <= y < HEIGHT: no sequence of
\* moves and jumps takes the player off the grid.  (Stated as claimed.)
C34_OnTheGrid ==
    (play.open /\ play.loaded) =>
        \/ play.Current_Location = Sentinel
        \/ /\ 0 <= play.Current_Location[1]
           /\ play.Current_Location[1] < play.WIDTH
           /\ 0 <= play.Current_Location[2]
           /\ play.Current_Location[2] < play.HEIGHT

\* ------------------------------------------------------------------ C35
\* C35: at any time at most one tick of the answer playback is waiting, also
\* when Play Answer is clicked again while a playback is in progress.
\* (Stated as claimed.)
C35_OnePendingTick ==
    Cardinality({k \in 1..Len(play.playback) : play.playback[k].timer}) <= 1

\* ------------------------------------------------------------------ C36
\* the visited cells the player can walk to from the cells of S without
\* leaving the visited cells: each step goes through an open wall
RECURSIVE VisitedReach(_)
VisitedReach(S) ==
    LET T == S \cup { Beside(q[1], q[2]) :
                        q \in { r \in S \X Sides :
                                  /\ play.Maze[r[1]].wall[r[2]] = 0
                                  /\ Beside(r[1], r[2]) \in VisitedCells(play) } }
    IN IF T = S THEN S ELSE VisitedReach(T)

\* C36: in every Playing state the visited flag of the current cell is true,
\* the entrance cell is visited, and every visited cell can be reached from
\* the entrance cell by steps between visited cells.  (Stated as claimed.)
C36_VisitedConnected ==
    Playing =>
        /\ play.Current_Location \in VisitedCells(play)
        /\ <<play.Start_X, play.Start_Y>> \in VisitedCells(play)
        /\ VisitedCells(play) = VisitedReach({<<play.Start_X, play.Start_Y>>})

\* ------------------------------------------------------------------ C37
\* the four wall flags of every cell of a grid
Walls(maze) == [c \in DOMAIN maze |-> maze[c].wall]

\* C37: once InstallDoors has run no later operation changes a wall flag:
\* the SolveMaze call that follows it leaves the flags as DrawMaze has just
\* drawn them, the play window receives them as they are, and the moves, the
\* clicks on cells, the checkboxes and the answer playback leave the four
\* flags of every cell unchanged, in the window and on the generator page
C37_WallsFrame ==
    [][/\ (pc = "GenerateMaze" /\ pc' = "idle") => Walls(Maze') = Maze_HTML'
       /\ (pc = "idle" /\ pc' = "idle" /\ Maze_HTML # << >> /\ Maze_HTML' = Maze_HTML)
              => Walls(Maze') = Walls(Maze)
       /\ (play.open = FALSE /\ play'.open) => Walls(play'.Maze) = Walls(Maze)
       /\ play.open => Walls(play'.Maze) = Walls(play.Maze)]_vars

\* a finished session with a jump, both colouring checkboxes checked and the
\* answer played to its end: the flags are still those DrawMaze drew
C37_Witness ==
    /\ Finished
    /\ play.User_Jumps = 1
    /\ play.showpath
    /\ play.showsplits
    /\ Len(play.playback) = 1
    /\ play.playback[1].timer = FALSE
    /\ Len(play.playback[1].shown) >= 2
    /\ Walls(play.Maze) = Maze_HTML
    /\ Walls(Maze) = Maze_HTML

\* ------------------------------------------------------------------ C38
\* C38: whatever the random draws, the list ShuffleNeighbors returns has the
\* length of the list GetNeighbors collected and holds the same coordinates,
\* each once; and GetNeighbors supplies only in-grid cells beside the cell
\* it was given
C38_ShufflePermutes ==
    \A k \in 1..Len(stack) :
        LET e == stack[k]
            collected == GetNeighbors(e.w, e.h)
        IN /\ Len(e.neighbors) = Len(collected)
           /\ \A i \in 1..Len(collected) :
                 Cardinality({j \in 1..Len(e.neighbors) : e.neighbors[j] = collected[i]}) = 1
           /\ \A i, j \in 1..Len(e.neighbors) : i # j => e.neighbors[i] # e.neighbors[j]
           /\ \A i \in 1..Len(collected) :
                 /\ InGrid(collected[i])
                 /\ collected[i] \in GridNeighbors(e.w, e.h, WIDTH, HEIGHT)

\* the four neighbors of the inner cell of a 3 x 3 grid, returned in the
\* reverse of the order GetNeighbors lists them in
C38_Witness ==
    /\ WIDTH = 3 /\ HEIGHT = 3
    /\ Len(stack) = 1
    /\ stack[1].w = 1 /\ stack[1].h = 1
    /\ stack[1].neighbors = << <<0, 1>>, <<1, 2>>, <<2, 1>>, <<1, 0>> >>

====
